---- MODULE Spec2Model ----
(***************************************************************************)
(* Zero-copy JSON value model (serde-zero-copy/src/lib.rs) and the demo    *)
(* service that yokes a decoded Value to its reference-counted buffer      *)
(* (hyper-zero-copy/src/bin/main.rs).                                      *)
(*                                                                         *)
(* Bytes are integers 0..255.  A Rust str/String is a UTF-8 byte sequence. *)
(* A borrowed slice (&'a str, &'a [u8]) is a record [ptr, len]: ptr is the *)
(* absolute address of its first byte.  A document is a token tree; the    *)
(* input buffer is its rendering (Render), so every token has a byte       *)
(* offset in the buffer.                                                   *)
(***************************************************************************)
EXTENDS Integers, Sequences, FiniteSets, TLC

\* ------------------------------------------------------------------ bounds

\* Longest array / object (number of elements or entries) among the documents.
MaxLen == 2

\* The output sink may fail on any of its first MaxFail calls.
MaxFail == 3

\* Request tasks of the service; request r owns buffer r and wrapper r.
MaxReqs == 1

\* Wrapper units built over a shared buffer, beside the requests' own.
MaxExtra == 2

\* Readers that may hold a projection of a wrapper at the same time.
MaxReaders == 2

\* ------------------------------------------------------------ bytes, text

RECURSIVE Flatten(_)
Flatten(ss) == IF ss = <<>> THEN <<>> ELSE Head(ss) \o Flatten(Tail(ss))

\* The byte 0xFF never occurs in UTF-8; U+FFFD is EF BF BD.
Replacement == <<239, 191, 189>>

RECURSIVE IsUtf8(_)
IsUtf8(bs) ==
    IF bs = <<>> THEN TRUE
    ELSE IF Head(bs) < 128 THEN IsUtf8(Tail(bs))
    ELSE IF Len(bs) >= 3 /\ SubSeq(bs, 1, 3) = Replacement
         THEN IsUtf8(SubSeq(bs, 4, Len(bs)))
    ELSE FALSE

\* String::from_utf8_lossy: every invalid byte becomes U+FFFD.
RECURSIVE FromUtf8Lossy(_)
FromUtf8Lossy(bs) ==
    IF bs = <<>> THEN <<>>
    ELSE IF Head(bs) < 128 THEN <<Head(bs)>> \o FromUtf8Lossy(Tail(bs))
    ELSE IF Len(bs) >= 3 /\ SubSeq(bs, 1, 3) = Replacement
         THEN Replacement \o FromUtf8Lossy(SubSeq(bs, 4, Len(bs)))
    ELSE Replacement \o FromUtf8Lossy(Tail(bs))

\* Lexicographic order on byte strings (Ord for str).
RECURSIVE BytesLess(_, _)
BytesLess(x, y) ==
    IF y = <<>> THEN FALSE
    ELSE IF x = <<>> THEN TRUE
    ELSE IF Head(x) # Head(y) THEN Head(x) < Head(y)
    ELSE BytesLess(Tail(x), Tail(y))

\* A JSON string token holds an escape iff it holds a backslash (92).
HasEscape(raw) == \E i \in 1..Len(raw) : raw[i] = 92

\* The content of a string token: \n -> 10; \\ and \" -> the escaped byte.
RECURSIVE Unescape(_)
Unescape(raw) ==
    IF raw = <<>> THEN <<>>
    ELSE IF Head(raw) = 92 /\ Len(raw) >= 2
         THEN <<(IF raw[2] = 110 THEN 10 ELSE raw[2])>> \o Unescape(SubSeq(raw, 3, Len(raw)))
    ELSE <<Head(raw)>> \o Unescape(Tail(raw))

\* What a JSON writer puts between the quotes for a text.
RECURSIVE Escape(_)
Escape(text) ==
    IF text = <<>> THEN <<>>
    ELSE (IF Head(text) = 10 THEN <<92, 110>>
          ELSE IF Head(text) \in {34, 92} THEN <<92, Head(text)>>
          ELSE <<Head(text)>>) \o Escape(Tail(text))

RECURSIVE Digits(_)
Digits(n) == IF n < 10 THEN <<48 + n>> ELSE Digits(n \div 10) \o <<48 + (n % 10)>>

\* ------------------------------------------------------------ 64-bit words

\* A u64 is four 16-bit limbs, most significant first; an i64 is the u64 of
\* its two's complement bits.
Limb == 256 * 256

Word(n) == <<0, 0, n \div Limb, n % Limb>>

\* x * m + d with the bits beyond 64 in carry.
MulAdd(x, m, d) ==
    LET l4 == x[4] * m + d
        l3 == x[3] * m + (l4 \div Limb)
        l2 == x[2] * m + (l3 \div Limb)
        l1 == x[1] * m + (l2 \div Limb)
    IN  [w |-> <<l1 % Limb, l2 % Limb, l3 % Limb, l4 % Limb>>, carry |-> l1 \div Limb]

\* x / 10 and x % 10
DivMod10(x) ==
    LET c1 == x[1]
        c2 == (c1 % 10) * Limb + x[2]
        c3 == (c2 % 10) * Limb + x[3]
        c4 == (c3 % 10) * Limb + x[4]
    IN  [q |-> <<c1 \div 10, c2 \div 10, c3 \div 10, c4 \div 10>>, r |-> c4 % 10]

\* itoa of a u64: its decimal digits.
RECURSIVE Itoa(_)
Itoa(x) ==
    LET d == DivMod10(x)
    IN  IF d.q = Word(0) THEN <<48 + d.r>> ELSE Itoa(d.q) \o <<48 + d.r>>

\* i64::wrapping_neg on the bits: complement, plus one, modulo 2^64.
WrappingNeg(x) ==
    MulAdd(<<Limb - 1 - x[1], Limb - 1 - x[2], Limb - 1 - x[3], Limb - 1 - x[4]>>, 1, 1).w

\* The sign bit of an i64.
IsNegative(i) == i[1] >= Limb \div 2

\* ------------------------------------------------------------- documents

DNull == [k |-> "null"]
DBool(b) == [k |-> "bool", b |-> b]
\* An integer token: an optional minus sign and decimal digits.
DIntDigits(neg, digits) == [k |-> "int", neg |-> neg, digits |-> digits]
DInt(neg, mag) == DIntDigits(neg, Digits(mag))
DFloat(i, f) == [k |-> "float", i |-> i, f |-> f]
\* A number written with an exponent: sign, significant digits d.ddd, power of ten.
DSci(neg, digits, exp) == [k |-> "sci", neg |-> neg, digits |-> digits, exp |-> exp]
\* A float event of a deserializer that reads no text (serde::de::value::F64Deserializer).
DF64(x) == [k |-> "f64", x |-> x]
DStr(raw) == [k |-> "str", raw |-> raw]
DArr(items) == [k |-> "arr", items |-> items]
DObj(entries) == [k |-> "obj", entries |-> entries]
DEntry(key, val) == [key |-> key, val |-> val]
\* A malformed token: a structural error or the end of a truncated input.
DBad == [k |-> "bad"]

\* The bytes of a document.
RECURSIVE Render(_)
Render(d) ==
    CASE d.k = "null"  -> <<110, 117, 108, 108>>
      [] d.k = "bool"  -> IF d.b THEN <<116, 114, 117, 101>> ELSE <<102, 97, 108, 115, 101>>
      [] d.k = "int"   -> (IF d.neg THEN <<45>> ELSE <<>>) \o d.digits
      [] d.k = "float" -> Digits(d.i) \o <<46>> \o Digits(d.f)
      [] d.k = "sci"   -> (IF d.neg THEN <<45>> ELSE <<>>) \o <<Head(d.digits), 46>>
                            \o Tail(d.digits) \o <<101>> \o Digits(d.exp)
      [] d.k = "f64"   -> <<>>
      [] d.k = "str"   -> <<34>> \o d.raw \o <<34>>
      [] d.k = "arr"   ->
            <<91>> \o Flatten([i \in 1..Len(d.items) |->
                        (IF i > 1 THEN <<44>> ELSE <<>>) \o Render(d.items[i])]) \o <<93>>
      [] d.k = "obj"   ->
            <<123>> \o Flatten([i \in 1..Len(d.entries) |->
                        (IF i > 1 THEN <<44>> ELSE <<>>) \o Render(d.entries[i].key)
                            \o <<58>> \o Render(d.entries[i].val)]) \o <<125>>
      [] OTHER         -> <<63>>

\* Offset of element i of an array token that starts at offset off.
RECURSIVE ItemOff(_, _, _)
ItemOff(items, i, off) ==
    IF i = 1 THEN off + 1
    ELSE ItemOff(items, i - 1, off) + Len(Render(items[i - 1])) + 1

\* Offset of the key token of entry i of an object token that starts at off.
RECURSIVE KeyOff(_, _, _)
KeyOff(entries, i, off) ==
    IF i = 1 THEN off + 1
    ELSE KeyOff(entries, i - 1, off) + Len(Render(entries[i - 1].key)) + 1
            + Len(Render(entries[i - 1].val)) + 1

ValOff(entries, i, off) == KeyOff(entries, i, off) + Len(Render(entries[i].key)) + 1

\* ----------------------------------------------------------------- Value

\* A borrowed slice of the input: address of the first byte, and length.
Slice(ptr, len) == [ptr |-> ptr, len |-> len]

\* The bytes a slice denotes, read from the buffer buf that starts at address base.
ReadSlice(buf, base, s) == SubSeq(buf, s.ptr - base + 1, s.ptr - base + s.len)

VNull == [kind |-> "Null"]
VBool(b) == [kind |-> "Bool", b |-> b]
VNumber(n) == [kind |-> "Number", n |-> n]
VBytes(s) == [kind |-> "Bytes", s |-> s]
VString(s) == [kind |-> "String", s |-> s]
VOwnedString(text) == [kind |-> "OwnedString", text |-> text]
VArray(items) == [kind |-> "Array", items |-> items]
VObject(m) == [kind |-> "Object", m |-> m]

\* serde_json::Number: From<u64>, From<i64>, from_f64 (None unless finite).
NumberFromU64(u) == [t |-> "PosInt", v |-> u]
NumberFromI64(i) ==
    IF IsNegative(i) THEN [t |-> "NegInt", v |-> i] ELSE [t |-> "PosInt", v |-> i]

\* f64 values: the decimal i.f, the float nearest to a long integer (kept to 17
\* significant digits), and the values that are not finite.
F64(i, f) == [cls |-> "finite", i |-> i, f |-> f]
NaN == [cls |-> "nan"]
Infinity(neg) == [cls |-> "infinite", neg |-> neg]

\* A decimal digit string plus one.
RECURSIVE Incr(_)
Incr(digits) ==
    IF digits = <<>> THEN <<49>>
    ELSE IF digits[Len(digits)] = 57 THEN Incr(SubSeq(digits, 1, Len(digits) - 1)) \o <<48>>
    ELSE SubSeq(digits, 1, Len(digits) - 1) \o <<digits[Len(digits)] + 1>>

F64FromDigits(neg, digits) ==
    [cls |-> "finite", neg |-> neg, exp |-> Len(digits) - 1,
     digits |-> IF Len(digits) <= 17 THEN digits
                ELSE IF digits[18] >= 53 THEN Incr(SubSeq(digits, 1, 17))
                ELSE SubSeq(digits, 1, 17)]

\* Number::from_f64: None unless the value is finite.
NumberFromF64(x) ==
    IF x.cls = "finite" THEN [some |-> TRUE, n |-> [t |-> "Float", v |-> x]]
    ELSE [some |-> FALSE]

\* Outcomes: a value, an error value returned to the caller, or a panic that unwinds.
Ok(v) == [st |-> "Ok", val |-> v]
Err(msg) == [st |-> "Err", msg |-> msg]
Panic == [st |-> "Panic"]

\* ------------------------------------------------------ BTreeMap<&str, Value>

\* BTreeInsert as a first-write-wins map would do it: an equal key keeps its value.
BTreeInsertKeepsOld(m, key, val, buf, base) ==
    LET t == ReadSlice(buf, base, key)
        Lower(e) == BytesLess(ReadSlice(buf, base, e.key), t)
        Same(e) == ReadSlice(buf, base, e.key) = t
        Higher(e) == BytesLess(t, ReadSlice(buf, base, e.key))
        same == SelectSeq(m, Same)
    IN  SelectSeq(m, Lower)
            \o (IF same = <<>> THEN << [key |-> key, val |-> val] >> ELSE same)
            \o SelectSeq(m, Higher)

\* BTreeInsert as a map that stores the new key with the new value would do it.
BTreeInsertReplacesKey(m, key, val, buf, base) ==
    LET t == ReadSlice(buf, base, key)
        Lower(e) == BytesLess(ReadSlice(buf, base, e.key), t)
        Higher(e) == BytesLess(t, ReadSlice(buf, base, e.key))
    IN  SelectSeq(m, Lower) \o << [key |-> key, val |-> val] >> \o SelectSeq(m, Higher)

\* BTreeInsert as a map that keeps its entries in the order of insertion would
\* do it: a new key goes last.
BTreeInsertAppends(m, key, val, buf, base) ==
    LET t == ReadSlice(buf, base, key)
        Same(e) == ReadSlice(buf, base, e.key) = t
    IN  IF SelectSeq(m, Same) = <<>> THEN Append(m, [key |-> key, val |-> val])
        ELSE [h \in 1..Len(m) |-> IF Same(m[h]) THEN [key |-> m[h].key, val |-> val] ELSE m[h]]

\* A map is its entries [key: slice, val] in strictly ascending order of key text.
\* insert: an equal key keeps the stored key and replaces the value.
BTreeInsert(m, key, val, buf, base) ==
    LET t == ReadSlice(buf, base, key)
        Lower(e) == BytesLess(ReadSlice(buf, base, e.key), t)
        Same(e) == ReadSlice(buf, base, e.key) = t
        Higher(e) == BytesLess(t, ReadSlice(buf, base, e.key))
        same == SelectSeq(m, Same)
    IN  SelectSeq(m, Lower)
            \o << [key |-> (IF same = <<>> THEN key ELSE same[1].key), val |-> val] >>
            \o SelectSeq(m, Higher)

\* ----------------------------------------------------------------- visitors

\* Visitor::expecting of ValueVisitor panics before it writes anything.
ValueVisitorExpecting == [panics |-> TRUE, text |-> "any valid JSON value"]

\* KeyClassifier::expecting left to panic, as ValueVisitor's does.
KeyClassifierExpectingPanics == [panics |-> TRUE, text |-> "a string key"]

KeyClassifierExpecting == [panics |-> FALSE, text |-> "a string key"]

\* <&str as Deserialize>: serde's StrVisitor, the key type of next_entry.
StrVisitorExpecting == [panics |-> FALSE, text |-> "a borrowed string"]

\* A visit_* method a visitor does not override: serde's default builds
\* Error::invalid_type(unexpected, &self), which formats self.expecting().
InvalidType(unexp, exp) ==
    IF exp.panics THEN Panic ELSE Err(<<"invalid type", unexp, exp.text>>)

VisitBool(value) == Ok(VBool(value))
VisitI64(value) == Ok(VNumber(NumberFromI64(value)))
\* visit_u64 that goes through i64 (value as i64).
VisitU64AsI64(value) == Ok(VNumber(NumberFromI64(value)))

VisitU64(value) == Ok(VNumber(NumberFromU64(value)))
\* visit_f64 that reports a value Number cannot hold as an error.
VisitF64Strict(value) ==
    LET n == NumberFromF64(value)
    IN  IF n.some THEN Ok(VNumber(n.n)) ELSE Err(<<"float must be finite">>)

VisitF64(value) ==
    LET n == NumberFromF64(value) IN Ok(IF n.some THEN VNumber(n.n) ELSE VNull)
\* visit_borrowed_str that builds the Bytes variant.
VisitBorrowedStrAsBytes(value) == Ok(VBytes(value))

\* visit_borrowed_str keeping the token with its quotes.
VisitBorrowedStrWithQuotes(value) == Ok(VString(Slice(value.ptr - 1, value.len + 2)))

VisitBorrowedStr(value) == Ok(VString(value))
VisitBorrowedBytes(v) == Ok(VBytes(v))
VisitBytes(v) == Ok(VOwnedString(FromUtf8Lossy(v)))
VisitUnit == Ok(VNull)
\* ValueVisitor has no visit_str: the default applies.
VisitStr(v) == InvalidType("string", ValueVisitorExpecting)

\* KeyClassifier: only visit_borrowed_str is overridden.
KeyVisitBorrowedStr(s) == Ok(s)

\* ------------------------------------------------------------- token source

\* The two deserializers the repository decodes with:
\*   "str"   serde_json's deserialize_any: a string token is a str
\*           (borrowed when it holds no escape, a scratch copy otherwise);
\*   "bytes" the raw string path of serde_json_nostr: the token is handed over
\*           as bytes (borrowed when it holds no escape, a scratch copy otherwise).
Sources == {"str", "bytes"}

\* serde_json: a string token at offset off (its opening quote) as a value.
JsonDeliverString(base, raw, off) ==
    IF ~IsUtf8(raw) THEN Err(<<"invalid unicode code point">>)
    ELSE IF HasEscape(raw) THEN VisitStr(Unescape(raw))
    ELSE VisitBorrowedStr(Slice(base + off + 1, Len(raw)))

\* serde_json_nostr: the token's bytes, as they are.
NostrDeliverString(base, raw, off) ==
    IF HasEscape(raw) THEN VisitBytes(Unescape(raw))
    ELSE VisitBorrowedBytes(Slice(base + off + 1, Len(raw)))

DeliverString(base, raw, off, src) ==
    IF src = "str" THEN JsonDeliverString(base, raw, off)
    ELSE NostrDeliverString(base, raw, off)

\* A map key at offset off, handed to a visitor that takes only borrowed strs
\* (deserialize_str with KeyClassifier, or with serde's StrVisitor).
DeliverKey(base, key, off, exp) ==
    IF key.k # "str" THEN Err(<<"key must be a string">>)
    ELSE IF ~IsUtf8(key.raw) THEN Err(<<"invalid unicode code point">>)
    ELSE IF HasEscape(key.raw) THEN InvalidType("string", exp)
    ELSE KeyVisitBorrowedStr(Slice(base + off + 1, Len(key.raw)))

\* The digits of an integer token accumulated as a u64 (significand * 10 +
\* digit); over: the next digit would not fit, and the number is read as a float.
RECURSIVE Significand(_, _)
Significand(digits, acc) ==
    IF digits = <<>> THEN acc
    ELSE LET r == MulAdd(acc.w, 10, Head(digits) - 48)
         IN  IF r.carry > 0 THEN [w |-> acc.w, over |-> TRUE]
             ELSE Significand(Tail(digits), [w |-> r.w, over |-> FALSE])

\* The event of an integer token: u64 when it has no sign, i64 when the negated
\* bits are negative, f64 when it does not fit (and for -0).
ParseInteger(neg, digits) ==
    LET s == Significand(digits, [w |-> Word(0), over |-> FALSE])
        negated == WrappingNeg(s.w)
    IN  IF s.over THEN [ev |-> "f64", v |-> F64FromDigits(neg, digits)]
        ELSE IF ~neg THEN [ev |-> "u64", v |-> s.w]
        ELSE IF ~IsNegative(negated) THEN [ev |-> "f64", v |-> F64FromDigits(TRUE, digits)]
        ELSE [ev |-> "i64", v |-> negated]

RECURSIVE Deserialize(_, _, _, _, _)
RECURSIVE VisitSeq(_, _, _, _, _, _, _)
RECURSIVE VisitMapLoop(_, _, _, _, _, _, _)

\* visit_seq without tri!: an element that fails is left out (best effort).
VisitSeqBestEffort(buf, base, items, off, src, i, vec) ==
    IF i > Len(items) THEN Ok(VArray(vec))
    ELSE LET elem == Deserialize(buf, base, items[i], ItemOff(items, i, off), src)
         IN  VisitSeq(buf, base, items, off, src, i + 1,
                      IF elem.st # "Ok" THEN vec ELSE Append(vec, elem.val))

\* visit_seq: next_element until None; tri! returns the first failure.
\* i is the next element, vec the elements pushed so far.
VisitSeq(buf, base, items, off, src, i, vec) ==
    IF i > Len(items) THEN Ok(VArray(vec))
    ELSE LET elem == Deserialize(buf, base, items[i], ItemOff(items, i, off), src)
         IN  IF elem.st # "Ok" THEN elem
             ELSE VisitSeq(buf, base, items, off, src, i + 1, Append(vec, elem.val))

\* The while-let of visit_map: next_entry (key, then value), then insert.
VisitMapLoop(buf, base, entries, off, src, i, values) ==
    IF i > Len(entries) THEN Ok(VObject(values))
    ELSE LET key == DeliverKey(base, entries[i].key, KeyOff(entries, i, off),
                               StrVisitorExpecting)
             value == Deserialize(buf, base, entries[i].val, ValOff(entries, i, off), src)
         IN  IF key.st # "Ok" THEN key
             ELSE IF value.st # "Ok" THEN value
             ELSE VisitMapLoop(buf, base, entries, off, src, i + 1,
                               BTreeInsert(values, key.val, value.val, buf, base))

\* visit_map: the first key through KeyClassifier, its value, then the loop.
VisitMap(buf, base, entries, off, src) ==
    IF entries = <<>> THEN Ok(VObject(<<>>))
    ELSE LET first_key == DeliverKey(base, entries[1].key, KeyOff(entries, 1, off),
                                     KeyClassifierExpecting)
             value == Deserialize(buf, base, entries[1].val, ValOff(entries, 1, off), src)
         IN  IF first_key.st # "Ok" THEN first_key
             ELSE IF value.st # "Ok" THEN value
             ELSE VisitMapLoop(buf, base, entries, off, src, 2,
                               BTreeInsert(<<>>, first_key.val, value.val, buf, base))

\* Value::deserialize: deserialize_any with ValueVisitor, on the token d found
\* at offset off of the buffer buf (whose first byte has address base).
Deserialize(buf, base, d, off, src) ==
    CASE d.k = "null"  -> VisitUnit
      [] d.k = "bool"  -> VisitBool(d.b)
      [] d.k = "int"   ->
            LET n == ParseInteger(d.neg, d.digits)
            IN  CASE n.ev = "u64" -> VisitU64(n.v)
                  [] n.ev = "i64" -> VisitI64(n.v)
                  [] OTHER        -> VisitF64(n.v)
      [] d.k = "float" -> VisitF64(F64(d.i, d.f))
      [] d.k = "sci"   -> VisitF64([cls |-> "finite", neg |-> d.neg, exp |-> d.exp,
                                    digits |-> d.digits])
      [] d.k = "f64"   -> VisitF64(d.x)
      [] d.k = "str"   -> DeliverString(base, d.raw, off, src)
      [] d.k = "arr"   -> VisitSeq(buf, base, d.items, off, src, 1, <<>>)
      [] d.k = "obj"   -> VisitMap(buf, base, d.entries, off, src)
      [] OTHER         -> Err(<<"expected value">>)

\* from_slice / from_str: decode the whole buffer of document d.
FromSlice(d, base, src) == Deserialize(Render(d), base, d, 0, src)

\* ------------------------------------------------------------------ encoder

\* The serializer behind S: Serializer.  w = [calls, fail, lens]: calls counts the
\* serializer calls made so far; the sink fails on call number fail (0: never);
\* lens holds the entry counts the serialize_map calls announced, in call order.
\* What has been written is a token tree; Render gives its bytes.
Serializers == {"serde_json", "serde_json_nostr"}

Sink(fail) == [calls |-> 0, fail |-> fail, lens |-> <<>>]
SOk(tok, w) == [st |-> "Ok", out |-> tok, w |-> w]
SErr(msg, w) == [st |-> "Err", msg |-> msg, w |-> w]

\* One serializer call writing the token tok.
Emit(tok, w) ==
    LET w2 == [w EXCEPT !.calls = @ + 1]
    IN  IF w2.calls = w2.fail THEN SErr(<<"io error">>, w2) ELSE SOk(tok, w2)

\* Number::serialize: serialize_u64, serialize_i64 (a minus sign and the
\* magnitude) or serialize_f64.
\* serializer.serialize_map(Some(len)): the map is opened and told its size.
SerializeMap(len, w) ==
    LET map == Emit(DNull, w)
    IN  IF map.st # "Ok" THEN map ELSE [map EXCEPT !.w.lens = Append(@, len)]

NumberToken(n) ==
    CASE n.t = "PosInt" -> DIntDigits(FALSE, Itoa(n.v))
      [] n.t = "NegInt" -> DIntDigits(TRUE, Itoa(WrappingNeg(n.v)))
      [] OTHER          -> IF "exp" \in DOMAIN n.v THEN DSci(n.v.neg, n.v.digits, n.v.exp)
                           ELSE DFloat(n.v.i, n.v.f)

\* serde_json's serialize_bytes writes the bytes as an array of numbers.
JsonSerializeBytes(b, w) == Emit(DArr([i \in 1..Len(b) |-> DInt(FALSE, b[i])]), w)

\* serde_json_nostr's serialize_bytes: a string, once validated as UTF-8.
NostrSerializeBytes(b, w) ==
    IF IsUtf8(b) THEN Emit(DStr(Escape(b)), w)
    ELSE SErr(<<"invalid utf-8">>, [w EXCEPT !.calls = @ + 1])

SerializeBytes(ser, b, w) ==
    IF ser = "serde_json" THEN JsonSerializeBytes(b, w) ELSE NostrSerializeBytes(b, w)

SerializeStr(text, w) == Emit(DStr(Escape(text)), w)

\* The OwnedString arm written as a byte array (serialize_bytes(s.as_bytes())).
SerializeOwnedStringAsBytes(s, w) == JsonSerializeBytes(s, w)

\* Value::OwnedString(s) => s.serialize(serializer)
SerializeOwnedString(s, w) == SerializeStr(s, w)

RECURSIVE Serialize(_, _, _, _, _)
RECURSIVE SerializeElements(_, _, _, _, _, _, _)
RECURSIVE SerializeEntries(_, _, _, _, _, _, _)

\* Vec<Value>::serialize: serialize_element for each element, then end.
SerializeElements(items, buf, base, ser, w, i, done) ==
    IF i > Len(items) THEN Emit(DArr(done), w)
    ELSE LET e == Serialize(items[i], buf, base, ser, w)
         IN  IF e.st # "Ok" THEN e
             ELSE SerializeElements(items, buf, base, ser, e.w, i + 1, Append(done, e.out))

\* The loop of the Object arm ending one entry early.
SerializeEntriesShort(m, buf, base, ser, w, i, done) ==
    IF i >= Len(m) THEN Emit(DObj(done), w)
    ELSE LET k == SerializeStr(ReadSlice(buf, base, m[i].key), w)
             v == Serialize(m[i].val, buf, base, ser, k.w)
         IN  IF k.st # "Ok" THEN k
             ELSE IF v.st # "Ok" THEN v
             ELSE SerializeEntries(m, buf, base, ser, v.w, i + 1,
                                   Append(done, DEntry(k.out, v.out)))

\* The for loop of the Object arm: tri!(map.serialize_entry(k, v)), then map.end().
SerializeEntries(m, buf, base, ser, w, i, done) ==
    IF i > Len(m) THEN Emit(DObj(done), w)
    ELSE LET k == SerializeStr(ReadSlice(buf, base, m[i].key), w)
             v == Serialize(m[i].val, buf, base, ser, k.w)
         IN  IF k.st # "Ok" THEN k
             ELSE IF v.st # "Ok" THEN v
             ELSE SerializeEntries(m, buf, base, ser, v.w, i + 1,
                                   Append(done, DEntry(k.out, v.out)))

\* impl Serialize for Value: self read against the buffer buf at address base.
Serialize(self, buf, base, ser, w) ==
    CASE self.kind = "Null"        -> Emit(DNull, w)
      [] self.kind = "Bool"        -> Emit(DBool(self.b), w)
      [] self.kind = "Number"      -> Emit(NumberToken(self.n), w)
      [] self.kind = "Bytes"       -> SerializeBytes(ser, ReadSlice(buf, base, self.s), w)
      [] self.kind = "String"      -> SerializeStr(ReadSlice(buf, base, self.s), w)
      [] self.kind = "Array"       ->
            LET seq == Emit(DNull, w)
            IN  IF seq.st # "Ok" THEN seq
                ELSE SerializeElements(self.items, buf, base, ser, seq.w, 1, <<>>)
      [] self.kind = "Object"      ->
            LET map == SerializeMap(Len(self.m), w)
            IN  IF map.st # "Ok" THEN map
                ELSE SerializeEntries(self.m, buf, base, ser, map.w, 1, <<>>)
      [] OTHER                     -> SerializeOwnedString(self.text, w)

\* ------------------------------------------------------ the standard reader

\* serde_json::Value of a document: strings are owned texts, an object is a
\* function from key text to value (a later duplicate replaces an earlier one).
JNull == [j |-> "null"]

RECURSIVE StdRead(_)
StdRead(d) ==
    CASE d.k = "null"  -> JNull
      [] d.k = "bool"  -> [j |-> "bool", b |-> d.b]
      [] d.k = "int"   -> [j |-> "number", n |-> ParseInteger(d.neg, d.digits)]
      [] d.k = "float" -> [j |-> "number", n |-> [ev |-> "f64", v |-> F64(d.i, d.f)]]
      [] d.k = "sci"   ->
            [j |-> "number",
             n |-> [ev |-> "f64", v |-> [cls |-> "finite", neg |-> d.neg, exp |-> d.exp,
                                         digits |-> d.digits]]]
      [] d.k = "str"   -> [j |-> "string", text |-> Unescape(d.raw)]
      [] d.k = "arr"   -> [j |-> "array", items |-> [i \in 1..Len(d.items) |-> StdRead(d.items[i])]]
      [] d.k = "obj"   ->
            LET keys == {Unescape(d.entries[i].key.raw) : i \in 1..Len(d.entries)}
                Last(t) == CHOOSE i \in 1..Len(d.entries) :
                              /\ Unescape(d.entries[i].key.raw) = t
                              /\ \A h \in (i + 1)..Len(d.entries) :
                                    Unescape(d.entries[h].key.raw) # t
            IN  [j |-> "object", map |-> [t \in keys |-> StdRead(d.entries[Last(t)].val)]]
      [] OTHER         -> [j |-> "invalid"]

\* Whether the standard reader accepts the document (RFC 8259, UTF-8).
RECURSIVE ValidJson(_)
ValidJson(d) ==
    CASE d.k = "str" -> IsUtf8(d.raw)
      [] d.k = "arr" -> \A i \in 1..Len(d.items) : ValidJson(d.items[i])
      [] d.k = "obj" -> \A i \in 1..Len(d.entries) :
                            /\ d.entries[i].key.k = "str"
                            /\ IsUtf8(d.entries[i].key.raw)
                            /\ ValidJson(d.entries[i].val)
      [] d.k \in {"bad", "f64"} -> FALSE
      [] OTHER       -> TRUE

\* ------------------------------------------------------------------- state

VARIABLES
    doc,      \* codec: the document in the input buffer
    src,      \* codec: the deserializer it is decoded with
    phase,    \* codec: "input", "decoded", "encoded"
    dec,      \* codec: the outcome of the decode
    ser,      \* codec: the serializer the Value is encoded with
    enc,      \* codec: the outcome of the encode
    heap,     \* service: the reference-counted buffers
    bare,     \* service: per buffer, the Arc handles not inside a wrapper
    yokes,    \* service: the wrapper units
    req,      \* service: the request tasks
    obs,      \* service: what the last projection read
    readers   \* service: the readers of completed wrappers

vars == <<doc, src, phase, dec, ser, enc, heap, bare, yokes, req, obs, readers>>
codecVars == <<doc, src, phase, dec, ser, enc>>
serviceVars == <<heap, bare, yokes, req, obs, readers>>

\* The address of the first byte of buffer b.
BufAddr(b) == 64 * b

NoResult == [st |-> "None"]

\* ---------------------------------------------------- the documents decoded

SeqsUpTo(S, n) == UNION {[1..h -> S] : h \in 0..n}

KeyA == DStr(<<97>>)
KeyB == DStr(<<98>>)
\* "a\n" written with an escape
Escaped == DStr(<<97, 92, 110>>)
\* a string token holding the byte 0xFF
NotUtf8 == DStr(<<255>>)

\* The text of a decimal number given by its digits.
Decimal(ds) == [i \in 1..Len(ds) |-> 48 + ds[i]]

\* 2^63 - 1, 2^63, 2^63 + 1, 2^64 - 1, 2^64
I64MaxDigits == Decimal(<<9, 2, 2, 3, 3, 7, 2, 0, 3, 6, 8, 5, 4, 7, 7, 5, 8, 0, 7>>)
TwoTo63Digits == Decimal(<<9, 2, 2, 3, 3, 7, 2, 0, 3, 6, 8, 5, 4, 7, 7, 5, 8, 0, 8>>)
TwoTo63Plus1Digits == Decimal(<<9, 2, 2, 3, 3, 7, 2, 0, 3, 6, 8, 5, 4, 7, 7, 5, 8, 0, 9>>)
U64MaxDigits == Decimal(<<1, 8, 4, 4, 6, 7, 4, 4, 0, 7, 3, 7, 0, 9, 5, 5, 1, 6, 1, 5>>)
TwoTo64Digits == Decimal(<<1, 8, 4, 4, 6, 7, 4, 4, 0, 7, 3, 7, 0, 9, 5, 5, 1, 6, 1, 6>>)

\* Integer tokens around the limits of i64 and u64, and some between.
Integers64 ==
    {DIntDigits(FALSE, ds) : ds \in {Decimal(<<0>>), Decimal(<<6, 5, 5, 3, 6>>),
                                     Decimal(<<4, 2, 9, 4, 9, 6, 7, 2, 9, 6>>),
                                     I64MaxDigits, TwoTo63Digits, TwoTo63Plus1Digits,
                                     U64MaxDigits, TwoTo64Digits}}
        \cup {DIntDigits(TRUE, ds) : ds \in {Decimal(<<6, 5, 5, 3, 6>>),
                                             Decimal(<<4, 2, 9, 4, 9, 6, 7, 2, 9, 6>>),
                                             I64MaxDigits, TwoTo63Digits, TwoTo63Plus1Digits}}

\* Float events of a deserializer that holds an f64, not a text.
FloatEvents == {DF64(F64(1, 5)), DF64(NaN), DF64(Infinity(FALSE)), DF64(Infinity(TRUE))}

Scalars ==
    {DNull, DBool(TRUE), DInt(FALSE, 1), DInt(FALSE, 2), DInt(TRUE, 1), DFloat(1, 5),
     KeyA, KeyB, Escaped, NotUtf8, DBad} \cup Integers64

Elements == {DInt(FALSE, 1), DInt(FALSE, 2), KeyA, Escaped, NotUtf8, DBad}

Keys == {KeyA, KeyB, Escaped}

Entries == {DEntry(key, val) : key \in Keys, val \in {DInt(FALSE, 1), DInt(FALSE, 2), KeyB, Escaped, DBad}}

Flat ==
    {DArr(items) : items \in SeqsUpTo(Elements, MaxLen)}
        \cup {DObj(entries) : entries \in SeqsUpTo(Entries, MaxLen)}

Inner ==
    {DArr(<<KeyA, DInt(FALSE, 1)>>), DArr(<<DBad>>), DArr(<<Escaped>>),
     DObj(<<DEntry(KeyB, KeyA), DEntry(KeyB, DInt(FALSE, 2))>>),
     DObj(<<DEntry(KeyB, KeyA), DEntry(KeyA, DInt(FALSE, 2))>>),
     DObj(<<DEntry(KeyA, DBad)>>), DObj(<<DEntry(Escaped, DNull)>>)}

Nested ==
    {DArr(<<x, y>>) : x \in Inner, y \in {DInt(FALSE, 1), KeyA}}
        \cup {DObj(<<DEntry(KeyA, x), DEntry(key, y)>>) :
                x \in Inner, key \in {KeyA, KeyB}, y \in Inner}

\* {"id":123,"name":"John Doe"}
JohnDoe ==
    DObj(<<DEntry(DStr(<<105, 100>>), DInt(FALSE, 123)),
           DEntry(DStr(<<110, 97, 109, 101>>), DStr(<<74, 111, 104, 110, 32, 68, 111, 101>>))>>)

Docs == Scalars \cup Flat \cup Nested \cup {JohnDoe}

\* ------------------------------------------------------------ codec actions

ServiceIdle ==
    /\ heap = <<>>
    /\ bare = <<>>
    /\ yokes = <<>>
    /\ req = <<>>
    /\ obs = [st |-> "None"]
    /\ readers = <<>>

CodecInit ==
    /\ \/ doc \in Docs /\ src \in Sources
       \/ doc \in FloatEvents /\ src = "f64"
    /\ phase = "input"
    /\ dec = NoResult
    /\ ser = "serde_json"
    /\ enc = NoResult
    /\ ServiceIdle

\* from_slice(buf) into Value
Decode ==
    /\ phase = "input"
    /\ dec' = FromSlice(doc, BufAddr(1), src)
    /\ phase' = "decoded"
    /\ UNCHANGED <<doc, src, ser, enc, serviceVars>>

\* to_string / to_writer of the decoded Value, into a sink that fails on call f
Encode(s, f) ==
    /\ phase = "decoded"
    /\ dec.st = "Ok"
    /\ ser' = s
    /\ enc' = Serialize(dec.val, Render(doc), BufAddr(1), s, Sink(f))
    /\ phase' = "encoded"
    /\ UNCHANGED <<doc, src, dec, serviceVars>>

CodecNext ==
    \/ Decode
    \/ \E s \in Serializers, f \in 0..MaxFail : Encode(s, f)

CodecSpec == CodecInit /\ [][CodecNext]_vars

\* ------------------------------------------------------ claims on the codec

TheBuf == Render(doc)

\* The outcome of decoding the value of entry i of the object d, on its own.
EntryValue(d, i) ==
    Deserialize(TheBuf, BufAddr(1), d.entries[i].val, ValOff(d.entries, i, 0), src)

\* The outcome of decoding element i of the array d, on its own.
ElementValue(d, i) ==
    Deserialize(TheBuf, BufAddr(1), d.items[i], ItemOff(d.items, i, 0), src)

KeyText(d, i) == Unescape(d.entries[i].key.raw)

\* The last entry of the object d whose key has the text of entry i's key.
LastOccurrence(d, i) ==
    CHOOSE h \in i..Len(d.entries) :
        /\ KeyText(d, h) = KeyText(d, i)
        /\ \A g \in (h + 1)..Len(d.entries) : KeyText(d, g) # KeyText(d, i)

PlainKey(key) == key.k = "str" /\ IsUtf8(key.raw) /\ ~HasEscape(key.raw)

\* C3: decoding never panics: whatever the token stream (scalars the visitor
\* has no handler for, malformed or truncated input), decode ends with a Value
\* or with an error value.
C3_DecodeNeverPanics == phase # "input" => dec.st \in {"Ok", "Err"}

\* C5: an object whose keys and values each decode yields, for every key
\* text, exactly one entry, holding the value of the key's last occurrence in
\* the stream; duplicate keys raise no error.
C5_LastWriteWins ==
    (/\ phase # "input"
     /\ doc.k = "obj"
     /\ \A i \in 1..Len(doc.entries) : PlainKey(doc.entries[i].key) /\ EntryValue(doc, i).st = "Ok")
    => /\ dec.st = "Ok"
       /\ dec.val.kind = "Object"
       /\ Len(dec.val.m) = Cardinality({KeyText(doc, i) : i \in 1..Len(doc.entries)})
       /\ \A i \in 1..Len(doc.entries) :
            LET hits == {h \in 1..Len(dec.val.m) :
                            ReadSlice(TheBuf, BufAddr(1), dec.val.m[h].key) = KeyText(doc, i)}
            IN  /\ Cardinality(hits) = 1
                /\ \A h \in hits : dec.val.m[h].val = EntryValue(doc, LastOccurrence(doc, i)).val

C5_Witness ==
    /\ phase = "decoded"
    /\ doc = DObj(<<DEntry(KeyA, DInt(FALSE, 1)), DEntry(KeyA, DInt(FALSE, 2))>>)
    /\ dec.st = "Ok"
    /\ Len(dec.val.m) = 1
    /\ dec.val.m[1].val = VNumber(NumberFromU64(Word(2)))

\* C6: for every valid JSON document D, decode succeeds and encode(decode(D)),
\* read back by the standard reader, equals D read by the standard reader.
C6_RoundTrip ==
    ValidJson(doc) =>
        /\ phase # "input" => dec.st = "Ok"
        /\ (phase = "encoded" /\ enc.w.fail = 0) =>
                enc.st = "Ok" /\ StdRead(enc.out) = StdRead(doc)

RECURSIVE NoEscapes(_)
NoEscapes(d) ==
    CASE d.k = "str" -> ~HasEscape(d.raw)
      [] d.k = "arr" -> \A i \in 1..Len(d.items) : NoEscapes(d.items[i])
      [] d.k = "obj" -> \A i \in 1..Len(d.entries) :
                            NoEscapes(d.entries[i].key) /\ NoEscapes(d.entries[i].val)
      [] OTHER       -> TRUE

\* The slice of the buffer that holds the content of the string token tok at off.
TokenSlice(tok, off) == Slice(BufAddr(1) + off + 1, Len(tok.raw))

\* The Value v is the decoding of the token d at offset off in which every
\* string leaf and every key is the slice of its own token.
RECURSIVE Aliases(_, _, _)
Aliases(v, d, off) ==
    CASE d.k = "str" -> v.kind \in {"String", "Bytes"} /\ v.s = TokenSlice(d, off)
      [] d.k = "arr" ->
            /\ v.kind = "Array"
            /\ Len(v.items) = Len(d.items)
            /\ \A i \in 1..Len(d.items) : Aliases(v.items[i], d.items[i], ItemOff(d.items, i, off))
      [] d.k = "obj" ->
            /\ v.kind = "Object"
            /\ \A h \in 1..Len(v.m) :
                 \E i \in 1..Len(d.entries) :
                    /\ v.m[h].key = TokenSlice(d.entries[i].key, KeyOff(d.entries, i, off))
                    /\ Aliases(v.m[h].val, d.entries[LastOccurrence(d, i)].val,
                               ValOff(d.entries, LastOccurrence(d, i), off))
      [] OTHER       -> v.kind \notin {"String", "Bytes", "OwnedString"}

\* Every slice of the Value v lies inside the one buffer [lo, hi).
RECURSIVE SlicesWithin(_, _, _)
SlicesWithin(v, lo, hi) ==
    CASE v.kind \in {"String", "Bytes"} -> lo <= v.s.ptr /\ v.s.ptr + v.s.len <= hi
      [] v.kind = "Array"  -> \A i \in 1..Len(v.items) : SlicesWithin(v.items[i], lo, hi)
      [] v.kind = "Object" ->
            \A h \in 1..Len(v.m) :
                /\ lo <= v.m[h].key.ptr
                /\ v.m[h].key.ptr + v.m[h].key.len <= hi
                /\ SlicesWithin(v.m[h].val, lo, hi)
      [] OTHER -> TRUE

\* C7: for a document without escape sequences, every String/Bytes leaf and
\* every Object key of the decoded Value is the byte range of its own token in
\* the input buffer (no copy), and all these ranges lie inside that buffer.
C7_ZeroCopy ==
    (phase # "input" /\ NoEscapes(doc) /\ dec.st = "Ok")
    => /\ Aliases(dec.val, doc, 0)
       /\ SlicesWithin(dec.val, BufAddr(1), BufAddr(1) + Len(TheBuf))

C7_Witness ==
    /\ phase = "decoded"
    /\ src = "str"
    /\ doc = DObj(<<DEntry(KeyA, DArr(<<KeyA, DInt(FALSE, 1)>>)),
                    DEntry(KeyB, DObj(<<DEntry(KeyB, KeyA), DEntry(KeyB, DInt(FALSE, 2))>>))>>)
    /\ dec.st = "Ok"
    /\ dec.val.m[1].val.items[1] = VString(Slice(BufAddr(1) + 7, 1))

\* C8: a string token with escape sequences decodes, and its leaf is an
\* OwnedString holding exactly the unescaped content of the token.
C8_EscapedIsOwned ==
    /\ (phase # "input" /\ doc.k = "str" /\ IsUtf8(doc.raw) /\ HasEscape(doc.raw))
            => dec = Ok(VOwnedString(Unescape(doc.raw)))
    /\ (phase # "input" /\ doc.k = "arr" /\ dec.st = "Ok")
            => \A i \in 1..Len(doc.items) :
                    (doc.items[i].k = "str" /\ HasEscape(doc.items[i].raw))
                        => dec.val.items[i] = VOwnedString(Unescape(doc.items[i].raw))

\* C9: a Bytes leaf holding valid UTF-8 is written as a JSON string with that
\* text; a Bytes leaf holding invalid UTF-8 makes encode return an error.
C9_BytesAsValidatedString ==
    (phase = "encoded" /\ dec.val.kind = "Bytes" /\ enc.w.fail = 0)
    => LET b == ReadSlice(TheBuf, BufAddr(1), dec.val.s)
       IN  IF IsUtf8(b)
           THEN enc.st = "Ok" /\ enc.out.k = "str" /\ Unescape(enc.out.raw) = b
           ELSE enc.st = "Err"

\* C11: a float event that is not finite (NaN, +Infinity, -Infinity) decodes
\* to Null and to no error; a finite float event decodes to a Number; encoding
\* that Null writes the JSON text null.
C11_NonFiniteIsNull ==
    /\ (phase # "input" /\ doc.k = "f64")
            => dec = Ok(IF doc.x.cls = "finite" THEN VNumber([t |-> "Float", v |-> doc.x])
                        ELSE VNull)
    /\ (phase # "input" /\ doc.k \in {"float", "sci"})
            => dec.st = "Ok" /\ dec.val.kind = "Number" /\ dec.val.n.t = "Float"
    /\ (phase = "encoded" /\ dec.val = VNull /\ enc.w.fail = 0)
            => enc.st = "Ok" /\ Render(enc.out) = <<110, 117, 108, 108>>

C11_Witness ==
    /\ phase = "encoded"
    /\ doc = DF64(Infinity(TRUE))
    /\ dec = Ok(VNull)
    /\ enc.st = "Ok"
    /\ enc.out = DNull

\* The decimal text digits (no leading zero) is at most the decimal text limit.
AtMost(digits, limit) ==
    \/ Len(digits) < Len(limit)
    \/ Len(digits) = Len(limit) /\ ~BytesLess(limit, digits)

\* C12: an integer token without sign that is at most 2^64 - 1 decodes to a
\* Number holding that unsigned value; a negative integer token of magnitude at
\* most 2^63 decodes to a Number holding that signed value; the Number is
\* written back as the decimal text of the token.
C12_IntegersByRange ==
    (phase # "input" /\ doc.k = "int")
    => /\ (~doc.neg /\ AtMost(doc.digits, U64MaxDigits))
            => /\ dec.st = "Ok"
               /\ dec.val.kind = "Number"
               /\ dec.val.n.t = "PosInt"
               /\ Itoa(dec.val.n.v) = doc.digits
       /\ (doc.neg /\ doc.digits # <<48>> /\ AtMost(doc.digits, TwoTo63Digits))
            => /\ dec.st = "Ok"
               /\ dec.val.kind = "Number"
               /\ dec.val.n.t = "NegInt"
               /\ IsNegative(dec.val.n.v)
               /\ Itoa(WrappingNeg(dec.val.n.v)) = doc.digits
       /\ (/\ phase = "encoded"
           /\ enc.w.fail = 0
           /\ AtMost(doc.digits, IF doc.neg THEN TwoTo63Digits ELSE U64MaxDigits)
           /\ ~(doc.neg /\ doc.digits = <<48>>))
            => enc.st = "Ok" /\ Render(enc.out) = Render(doc)

C12_Witness ==
    /\ phase = "encoded"
    /\ doc = DIntDigits(FALSE, TwoTo63Digits)
    /\ dec = Ok(VNumber([t |-> "PosInt", v |-> <<Limb \div 2, 0, 0, 0>>]))
    /\ enc.st = "Ok"
    /\ Render(enc.out) = TwoTo63Digits

\* The least i64, and the first integer tokens beyond each limit.
C12_LimitsWitness ==
    /\ phase = "encoded"
    /\ \/ /\ doc = DIntDigits(TRUE, TwoTo63Digits)
          /\ dec = Ok(VNumber([t |-> "NegInt", v |-> <<Limb \div 2, 0, 0, 0>>]))
          /\ Render(enc.out) = <<45>> \o TwoTo63Digits
       \/ /\ doc = DIntDigits(FALSE, U64MaxDigits)
          /\ dec = Ok(VNumber([t |-> "PosInt", v |-> <<Limb - 1, Limb - 1, Limb - 1, Limb - 1>>]))
          /\ Render(enc.out) = U64MaxDigits
       \/ /\ doc = DIntDigits(FALSE, TwoTo64Digits)
          /\ dec.val.n.t = "Float"

\* The entry counts of the objects of a written token, in the order they were opened.
RECURSIVE MapLens(_)
MapLens(tok) ==
    CASE tok.k = "arr" -> Flatten([i \in 1..Len(tok.items) |-> MapLens(tok.items[i])])
      [] tok.k = "obj" ->
            <<Len(tok.entries)>>
                \o Flatten([i \in 1..Len(tok.entries) |-> MapLens(tok.entries[i].val)])
      [] OTHER -> <<>>

\* The token tok holds, for each Object of the Value v, the entries of its map:
\* entry h of the map is entry h of the written object, and there is no other.
RECURSIVE Emitted(_, _)
Emitted(v, tok) ==
    CASE v.kind = "Array" ->
            /\ tok.k = "arr"
            /\ Len(tok.items) = Len(v.items)
            /\ \A i \in 1..Len(v.items) : Emitted(v.items[i], tok.items[i])
      [] v.kind = "Object" ->
            /\ tok.k = "obj"
            /\ Len(tok.entries) = Len(v.m)
            /\ \A h \in 1..Len(v.m) :
                    /\ tok.entries[h].key.k = "str"
                    /\ Unescape(tok.entries[h].key.raw) = ReadSlice(TheBuf, BufAddr(1), v.m[h].key)
                    /\ Emitted(v.m[h].val, tok.entries[h].val)
      [] OTHER -> TRUE

\* In every object of the written token the key texts strictly ascend.
RECURSIVE KeysAscend(_)
KeysAscend(tok) ==
    CASE tok.k = "arr" -> \A i \in 1..Len(tok.items) : KeysAscend(tok.items[i])
      [] tok.k = "obj" ->
            /\ \A h \in 1..(Len(tok.entries) - 1) :
                    BytesLess(Unescape(tok.entries[h].key.raw),
                              Unescape(tok.entries[h + 1].key.raw))
            /\ \A h \in 1..Len(tok.entries) : KeysAscend(tok.entries[h].val)
      [] OTHER -> TRUE

\* C13: encoding an Object writes each entry of its map exactly once, in
\* ascending order of the key texts whatever the order of the keys in the
\* input, and the entry count announced to serialize_map is the number of
\* entries written.
C13_EntriesOnceInKeyOrder ==
    (phase = "encoded" /\ enc.st = "Ok")
    => /\ Emitted(dec.val, enc.out)
       /\ KeysAscend(enc.out)
       /\ enc.w.lens = MapLens(enc.out)
       /\ doc.k = "obj"
            => {Unescape(enc.out.entries[h].key.raw) : h \in 1..Len(enc.out.entries)}
                    = {KeyText(doc, i) : i \in 1..Len(doc.entries)}

\* {"b":1,"a":2} is written as {"a":2,"b":1}.
C13_Witness ==
    /\ phase = "encoded"
    /\ doc = DObj(<<DEntry(KeyB, DInt(FALSE, 1)), DEntry(KeyA, DInt(FALSE, 2))>>)
    /\ enc.st = "Ok"
    /\ enc.out = DObj(<<DEntry(KeyA, DInt(FALSE, 2)), DEntry(KeyB, DInt(FALSE, 1))>>)
    /\ enc.w.lens = <<2>>

\* The Value v with an owned copy in place of every String leaf.
RECURSIVE Owned(_)
Owned(v) ==
    CASE v.kind = "String" -> VOwnedString(ReadSlice(TheBuf, BufAddr(1), v.s))
      [] v.kind = "Array"  -> VArray([i \in 1..Len(v.items) |-> Owned(v.items[i])])
      [] v.kind = "Object" ->
            VObject([h \in 1..Len(v.m) |-> [key |-> v.m[h].key, val |-> Owned(v.m[h].val)]])
      [] OTHER -> v

RECURSIVE HasStringLeaf(_)
HasStringLeaf(v) ==
    CASE v.kind = "String" -> TRUE
      [] v.kind = "Array"  -> \E i \in 1..Len(v.items) : HasStringLeaf(v.items[i])
      [] v.kind = "Object" -> \E h \in 1..Len(v.m) : HasStringLeaf(v.m[h].val)
      [] OTHER -> FALSE

\* C14: a tree and the same tree with OwnedString(t) in place of every
\* String(t) encode alike: the same bytes, or the same error at the same call.
C14_OwnedEncodesAlike ==
    phase = "encoded"
        => Serialize(Owned(dec.val), TheBuf, BufAddr(1), ser, Sink(enc.w.fail)) = enc

C14_Witness ==
    /\ phase = "encoded"
    /\ doc = DObj(<<DEntry(KeyA, DArr(<<KeyA, DInt(FALSE, 1)>>)), DEntry(KeyB, DArr(<<KeyA, DInt(FALSE, 1)>>))>>)
    /\ HasStringLeaf(dec.val)
    /\ Owned(dec.val) # dec.val
    /\ enc.st = "Ok"
    /\ Render(enc.out) = Render(doc)

\* The outcomes of the steps of decoding d's children, in stream order.
Steps(d) ==
    IF d.k = "arr" THEN [i \in 1..Len(d.items) |-> ElementValue(d, i)]
    ELSE Flatten([i \in 1..Len(d.entries) |->
            << DeliverKey(BufAddr(1), d.entries[i].key, KeyOff(d.entries, i, 0),
                          IF i = 1 THEN KeyClassifierExpecting ELSE StrVisitorExpecting),
               EntryValue(d, i) >>])

\* C10: decode returns the first failure among an array's elements or an
\* object's keys and values, and no Value with it; encode makes no serializer
\* call after the one that failed.
C10_FirstErrorStops ==
    /\ (phase # "input" /\ doc.k \in {"arr", "obj"})
        => \A i \in 1..Len(Steps(doc)) :
                (Steps(doc)[i].st # "Ok" /\ \A h \in 1..(i - 1) : Steps(doc)[h].st = "Ok")
                    => dec = Steps(doc)[i] /\ "val" \notin DOMAIN dec
    /\ phase = "encoded"
        => /\ enc.st = "Err" => "out" \notin DOMAIN enc
           /\ enc.w.fail # 0 => enc.w.calls <= enc.w.fail
           /\ (enc.st = "Ok" /\ enc.w.fail # 0) => enc.w.calls < enc.w.fail

C10_EncodeWitness ==
    /\ phase = "encoded"
    /\ doc = DObj(<<DEntry(KeyA, DInt(FALSE, 1)), DEntry(KeyB, DInt(FALSE, 2))>>)
    /\ enc.st = "Err"
    /\ enc.w.fail = 3
    /\ enc.w.calls = 3

C10_Witness ==
    /\ phase = "decoded"
    /\ doc = DArr(<<DInt(FALSE, 1), DBad>>)
    /\ dec.st = "Err"

\* The tree of {"id":123,"name":"John Doe"} with its string leaf in the variant
\* kind: both keys and the leaf are slices of the buffer at their tokens' offsets.
JohnDoeTree(kind) ==
    VObject(<< [key |-> Slice(BufAddr(1) + 2, 2), val |-> VNumber(NumberFromU64(Word(123)))],
               [key |-> Slice(BufAddr(1) + 11, 4),
                val |-> [kind |-> kind, s |-> Slice(BufAddr(1) + 18, 8)]] >>)

RECURSIVE AnyEscapedKey(_)
AnyEscapedKey(d) ==
    CASE d.k = "arr" -> \E i \in 1..Len(d.items) : AnyEscapedKey(d.items[i])
      [] d.k = "obj" -> \E i \in 1..Len(d.entries) :
                            \/ ~PlainKey(d.entries[i].key)
                            \/ AnyEscapedKey(d.entries[i].val)
      [] OTHER       -> FALSE

\* Every key of every Object of v is a string token of the buffer, in place:
\* a range of the buffer between two quotes, holding no escape.
RECURSIVE KeysInPlace(_)
KeysInPlace(v) ==
    CASE v.kind = "Array"  -> \A i \in 1..Len(v.items) : KeysInPlace(v.items[i])
      [] v.kind = "Object" ->
            \A h \in 1..Len(v.m) :
                LET key == v.m[h].key
                    at == key.ptr - BufAddr(1)
                IN  /\ 1 <= at
                    /\ at + key.len < Len(TheBuf)
                    /\ TheBuf[at] = 34
                    /\ TheBuf[at + key.len + 1] = 34
                    /\ ~HasEscape(ReadSlice(TheBuf, BufAddr(1), key))
                    /\ KeysInPlace(v.m[h].val)
      [] OTHER -> TRUE

\* The first entry of the object d whose key is not a plain string token.
FirstBadKey(d) ==
    CHOOSE i \in 1..Len(d.entries) :
        /\ ~PlainKey(d.entries[i].key)
        /\ \A h \in 1..(i - 1) : PlainKey(d.entries[h].key)

\* C20: a key has no owned fallback. An object reached by the decoder with a
\* key that holds an escape (the entries before it decoded) ends the decode
\* with an invalid-type error that names the string expected as key ("a
\* string key" for the first key of the object, "a borrowed string" for a
\* later one): no panic and no tree. No document with such a key anywhere
\* decodes, and every key of every decoded Object is a token of the input
\* buffer, in place.
C20_KeysHaveNoOwnedFallback ==
    phase # "input"
    => /\ (/\ doc.k = "obj"
           /\ \E i \in 1..Len(doc.entries) : ~PlainKey(doc.entries[i].key)
           /\ \A h \in 1..(FirstBadKey(doc) - 1) : EntryValue(doc, h).st = "Ok")
            => dec = Err(<<"invalid type", "string",
                           IF FirstBadKey(doc) = 1 THEN "a string key"
                           ELSE "a borrowed string">>)
       /\ AnyEscapedKey(doc) => dec.st # "Ok"
       /\ dec.st = "Ok" => KeysInPlace(dec.val)

\* An escaped key after a plain one whose value decoded: an error, no tree.
C20_Witness ==
    /\ phase = "decoded"
    /\ doc = DObj(<<DEntry(KeyA, DInt(FALSE, 1)), DEntry(Escaped, DInt(FALSE, 2))>>)
    /\ dec = Err(<<"invalid type", "string", "a borrowed string">>)

\* An escaped first key.
C20_FirstKeyWitness ==
    /\ phase = "decoded"
    /\ doc = DObj(<<DEntry(Escaped, KeyB)>>)
    /\ dec = Err(<<"invalid type", "string", "a string key">>)

\* The first entry of the object d whose key has the text of entry i's key.
FirstOccurrence(d, i) ==
    CHOOSE h \in 1..i :
        /\ KeyText(d, h) = KeyText(d, i)
        /\ \A g \in 1..(h - 1) : KeyText(d, g) # KeyText(d, i)

\* The Value v decoded from the token d at offset off keeps, in every Object
\* of it and for every key text, one entry: its key the slice of the text's
\* first occurrence, its value the decoding of the text's last occurrence; when
\* the two occurrences differ, the value's token does not follow the key's.
RECURSIVE FirstKeyLastValue(_, _, _)
FirstKeyLastValue(v, d, off) ==
    CASE d.k = "arr" ->
            \A i \in 1..Len(d.items) :
                FirstKeyLastValue(v.items[i], d.items[i], ItemOff(d.items, i, off))
      [] d.k = "obj" ->
            /\ Len(v.m) = Cardinality({KeyText(d, i) : i \in 1..Len(d.entries)})
            /\ \A i \in 1..Len(d.entries) :
                 LET first == FirstOccurrence(d, i)
                     last == LastOccurrence(d, i)
                     key == TokenSlice(d.entries[first].key, KeyOff(d.entries, first, off))
                     at == ValOff(d.entries, last, off)
                     hits == {h \in 1..Len(v.m) : v.m[h].key = key}
                 IN  /\ Cardinality(hits) = 1
                     /\ \A h \in hits :
                          /\ v.m[h].val = Deserialize(TheBuf, BufAddr(1), d.entries[last].val,
                                                      at, src).val
                          /\ FirstKeyLastValue(v.m[h].val, d.entries[last].val, at)
                     /\ first # last => BufAddr(1) + at > key.ptr + key.len + 2
      [] OTHER -> TRUE

\* C21: in a decoded Object the entry of a key text pairs the key slice of the
\* text's first occurrence in the input with the value of its last occurrence
\* (with a duplicate, two regions of the buffer that are not adjacent), and the
\* map has as many entries as there are distinct key texts.
C21_FirstKeyLastValue ==
    (phase # "input" /\ dec.st = "Ok") => FirstKeyLastValue(dec.val, doc, 0)

\* {"a":1,"a":"b"}: the key is the first "a", the value the slice of "b".
C21_Witness ==
    /\ phase = "decoded"
    /\ src = "str"
    /\ doc = DObj(<<DEntry(KeyA, DInt(FALSE, 1)), DEntry(KeyA, KeyB)>>)
    /\ dec = Ok(VObject(<< [key |-> Slice(BufAddr(1) + 2, 1),
                            val |-> VString(Slice(BufAddr(1) + 12, 1))] >>))


\* ------------------------------------------------------------- the service

Reqs == 1..MaxReqs
YokeIds == 1..(MaxReqs + MaxExtra)
Readers == 1..MaxReaders

\* The response bodies the outbound fetch may return.
Bodies ==
    {DObj(<<DEntry(KeyA, KeyB), DEntry(KeyB, DInt(FALSE, 1))>>),
     DObj(<<DEntry(KeyA, DBad)>>),
     NotUtf8}

ReaderIdle == [pc |-> "idle"]
NoBuffer == [state |-> "none", bytes |-> <<>>, strong |-> 0, frees |-> 0]
NoYoke == [state |-> "none", cart |-> 0]
NewRequest == [pc |-> "start", body |-> DNull, log |-> <<>>]

\* What memory holds where a deallocated buffer was.
Scribbled(bytes) == [i \in 1..Len(bytes) |-> 0]

\* The body bytes as they arrive: a Bytes with one owner.
Allocate(bytes) == [state |-> "live", bytes |-> bytes, strong |-> 1, frees |-> 0]

\* Arc::new(buf)
ArcNewBuffer(bytes) == [state |-> "live", bytes |-> bytes, strong |-> 1, frees |-> 0]

\* Arc::clone
ArcClone(buffer) == [buffer EXCEPT !.strong = @ + 1]

\* Drop of an Arc<Bytes> that forgets the other holders of the buffer.
ArcDropFreesAlways(buffer) ==
    [buffer EXCEPT !.strong = @ - 1, !.state = "freed",
                   !.bytes = Scribbled(@), !.frees = @ + 1]

\* Drop of an Arc<Bytes> that frees at zero but leaves the count as it was.
ArcDropKeepsCount(buffer) ==
    IF buffer.strong = 1
    THEN [buffer EXCEPT !.state = "freed", !.bytes = Scribbled(@), !.frees = @ + 1]
    ELSE buffer

\* Drop of an Arc<Bytes>: one holder less; the last one deallocates.
ArcDrop(buffer) ==
    IF buffer.strong = 1
    THEN [buffer EXCEPT !.strong = 0, !.state = "freed",
                        !.bytes = Scribbled(@), !.frees = @ + 1]
    ELSE [buffer EXCEPT !.strong = @ - 1]

\* The Value v as a reader sees it: every slice replaced by the bytes it denotes.
RECURSIVE Peek(_, _, _)
Peek(v, buf, base) ==
    CASE v.kind \in {"String", "Bytes"} -> [kind |-> v.kind, text |-> ReadSlice(buf, base, v.s)]
      [] v.kind = "Array"  ->
            [kind |-> "Array", items |-> [i \in 1..Len(v.items) |-> Peek(v.items[i], buf, base)]]
      [] v.kind = "Object" ->
            [kind |-> "Object",
             m |-> [h \in 1..Len(v.m) |->
                        [key |-> ReadSlice(buf, base, v.m[h].key),
                         val |-> Peek(v.m[h].val, buf, base)]]]
      [] OTHER -> v

\* Yoke::attach_to_cart(cart, |b| from_slice(b).unwrap()) over buffer b, decoding
\* with s: the wrapper on success, nothing when the closure panics.
AttachToCart(b, s) ==
    LET val == Deserialize(heap[b].bytes, BufAddr(b), req[b].body, 0, s)
    IN  IF val.st = "Ok"
        THEN [state |-> "live", cart |-> b, val |-> val.val,
              snap |-> Peek(val.val, heap[b].bytes, BufAddr(b))]
        ELSE NoYoke

\* serde_json_nostr::to_writer(&mut buf, &self.0.get()): what is written, and
\* the bytes of the wrapper's buffer after the call (read through a shared
\* reference, they stay as they are).
ToWriterDraining(yoke, bytes, s, f) ==
    [out |-> Serialize(yoke.val, bytes, BufAddr(yoke.cart), s, Sink(f)),
     bytes |-> Scribbled(bytes)]

ToWriter(yoke, bytes, s, f) ==
    [out |-> Serialize(yoke.val, bytes, BufAddr(yoke.cart), s, Sink(f)),
     bytes |-> bytes]

\* The address of the BytesMut (or of the error's String) of response b.
RespAddr(b) == BufAddr(b) + 32

\* IntoResponse for SerializableYok, reading the buffers as they are in mem.
IntoResponse(yoke, mem) ==
    LET b == yoke.cart
        written == ToWriter(yoke, mem[b].bytes, "serde_json_nostr", 0).out
    IN  IF written.st = "Ok"
        THEN [status |-> 200, content_type |-> "application/json",
              at |-> RespAddr(b), body |-> Render(written.out)]
        ELSE [status |-> 500, content_type |-> "text/plain; charset=utf-8",
              at |-> RespAddr(b), body |-> written.msg]

\* A wrapper that may be moved or dropped whoever holds a projection of it.
NeverBorrowed(y) == TRUE

\* No reader holds a projection of wrapper y (a wrapper that is borrowed
\* cannot be moved or dropped).
Unborrowed(y) == \A k \in Readers : IF readers[k].pc = "idle" THEN TRUE ELSE readers[k].y # y

ServiceInit ==
    /\ heap = [b \in Reqs |-> NoBuffer]
    /\ bare = [b \in Reqs |-> 0]
    /\ yokes = [y \in YokeIds |-> NoYoke]
    /\ req = [r \in Reqs |-> NewRequest]
    /\ obs = NoResult
    /\ readers = [k \in Readers |-> ReaderIdle]

CodecIdle ==
    /\ doc = DNull
    /\ src = "bytes"
    /\ phase = "idle"
    /\ dec = NoResult
    /\ ser = "serde_json_nostr"
    /\ enc = NoResult

Init == ServiceInit /\ CodecIdle

\* client.get(uri).await.unwrap(): the response head arrives, or the fetch fails
Get(r, ok) ==
    /\ req[r].pc = "start"
    /\ req' = [req EXCEPT ![r].pc = IF ok THEN "res" ELSE "panicked_get",
                          ![r].log = IF ok THEN Append(@, "fetch") ELSE @]
    /\ UNCHANGED <<heap, bare, yokes, obs, readers, codecVars>>

\* Inside to_bytes(res).await: the body d has arrived and is held by the
\* future, which now awaits the end of the stream.
Chunk(r, d) ==
    /\ req[r].pc = "res"
    /\ req' = [req EXCEPT ![r].pc = "receiving", ![r].body = d]
    /\ heap' = [heap EXCEPT ![r] = Allocate(Render(d))]
    /\ bare' = [bare EXCEPT ![r] = 1]
    /\ UNCHANGED <<yokes, obs, readers, codecVars>>

\* hyper::body::to_bytes(res).await.unwrap(): the stream ends and the body is
\* the buffer, or the transport fails and unwrap panics (dropping what arrived).
ToBytes(r, ok) ==
    /\ req[r].pc \in {"res", "receiving"}
    /\ ok => req[r].pc = "receiving"
    /\ req' = [req EXCEPT ![r].pc = IF ok THEN "buffered" ELSE "panicked_body",
                          ![r].log = IF ok THEN Append(@, "buffer") ELSE @]
    /\ heap' = IF ~ok /\ req[r].pc = "receiving" THEN [heap EXCEPT ![r] = ArcDrop(@)] ELSE heap
    /\ bare' = IF ~ok /\ req[r].pc = "receiving" THEN [bare EXCEPT ![r] = 0] ELSE bare
    /\ UNCHANGED <<yokes, obs, readers, codecVars>>

\* A cancellation that forgets the bytes that have arrived.
CancelLeaks(r) ==
    /\ req[r].pc \in {"start", "res", "receiving"}
    /\ req' = [req EXCEPT ![r].pc = "cancelled"]
    /\ UNCHANGED <<heap, bare, yokes, obs, readers, codecVars>>

\* The request future is dropped while it awaits the fetch or the body: its
\* locals are dropped, the bytes that have arrived among them.
Cancel(r) ==
    /\ req[r].pc \in {"start", "res", "receiving"}
    /\ req' = [req EXCEPT ![r].pc = "cancelled"]
    /\ heap' = IF req[r].pc = "receiving" THEN [heap EXCEPT ![r] = ArcDrop(@)] ELSE heap
    /\ bare' = IF req[r].pc = "receiving" THEN [bare EXCEPT ![r] = 0] ELSE bare
    /\ UNCHANGED <<yokes, obs, readers, codecVars>>

\* let buf = Arc::new(buf)
ArcNew(r) ==
    /\ req[r].pc = "buffered"
    /\ heap' = [heap EXCEPT ![r] = ArcNewBuffer(Render(req[r].body))]
    /\ bare' = [bare EXCEPT ![r] = 1]
    /\ req' = [req EXCEPT ![r].pc = "arc", ![r].log = Append(@, "arc")]
    /\ UNCHANGED <<yokes, obs, readers, codecVars>>

\* Yoke::attach_to_cart(buf, ..): the handle moves into the wrapper; when the
\* closure's unwrap panics, the handle is dropped by the unwinding.
Attach(r) ==
    /\ req[r].pc = "arc"
    /\ LET yoke == AttachToCart(r, "bytes")
       IN  /\ yokes' = [yokes EXCEPT ![r] = yoke]
           /\ bare' = [bare EXCEPT ![r] = @ - 1]
           /\ heap' = IF yoke.state = "live" THEN heap
                      ELSE [heap EXCEPT ![r] = ArcDrop(@)]
           /\ req' = [req EXCEPT ![r].pc = IF yoke.state = "live" THEN "yoked"
                                            ELSE "panicked_decode",
                                 ![r].log = Append(@, "decode")]
    /\ UNCHANGED <<obs, readers, codecVars>>

\* into_response that lets go of the wrapper before it writes the response.
RespondDropsFirst(r) ==
    /\ req[r].pc = "yoked"
    /\ Unborrowed(r)
    /\ yokes' = [yokes EXCEPT ![r].state = "dropped"]
    /\ heap' = [heap EXCEPT ![r] = ArcDrop(@)]
    /\ req' = [req EXCEPT ![r] = [pc |-> "done", body |-> @.body,
                                  log |-> @.log \o <<"drop", "encode">>,
                                  resp |-> IntoResponse(yokes'[r], heap')]]
    /\ UNCHANGED <<bare, obs, readers, codecVars>>

\* SerializableYok::into_response(self): encode through the projection, then
\* self (the wrapper, and its handle) is dropped.
Respond(r) ==
    /\ req[r].pc = "yoked"
    /\ Unborrowed(r)
    /\ req' = [req EXCEPT ![r] = [pc |-> "done", body |-> @.body,
                                  log |-> @.log \o <<"encode", "drop">>,
                                  resp |-> IntoResponse(yokes[r], heap)]]
    /\ yokes' = [yokes EXCEPT ![r].state = "dropped"]
    /\ heap' = [heap EXCEPT ![r] = ArcDrop(@)]
    /\ UNCHANGED <<bare, obs, readers, codecVars>>

\* The handles of buffer b that are free to be shared: all but the one the
\* request is about to move into its own wrapper.
Spare(b) == bare[b] - (IF req[b].pc \in {"receiving", "buffered", "arc"} THEN 1 ELSE 0)

\* Arc::clone of a handle of buffer b (one clone for each wrapper there can be)
CloneHandle(b) ==
    /\ bare[b] >= 1
    /\ req[b].pc \notin {"receiving", "buffered"}
    /\ heap[b].strong < MaxExtra
    /\ heap' = [heap EXCEPT ![b] = ArcClone(@)]
    /\ bare' = [bare EXCEPT ![b] = @ + 1]
    /\ UNCHANGED <<yokes, req, obs, readers, codecVars>>

\* A second wrapper unit over the shared buffer b, decoding with s.
AttachShared(b, s, y) ==
    /\ Spare(b) >= 1
    /\ y \in YokeIds \ Reqs
    /\ yokes[y].state = "none"
    /\ \A x \in YokeIds \ Reqs : x < y => yokes[x].state # "none"
    /\ LET yoke == AttachToCart(b, s)
       IN  /\ yokes' = [yokes EXCEPT ![y] = yoke]
           /\ heap' = IF yoke.state = "live" THEN heap
                      ELSE [heap EXCEPT ![b] = ArcDrop(@)]
    /\ bare' = [bare EXCEPT ![b] = @ - 1]
    /\ UNCHANGED <<req, obs, readers, codecVars>>

\* Yoke::get(): a read of the wrapper's Value, through its slices.
Project(y) ==
    /\ yokes[y].state = "live"
    /\ LET b == yokes[y].cart
       IN  obs' = [st |-> "Read",
                   freed |-> heap[b].state # "live",
                   intact |-> Peek(yokes[y].val, heap[b].bytes, BufAddr(b)) = yokes[y].snap,
                   after_drop |-> \E x \in YokeIds :
                                    x # y /\ yokes[x].state = "dropped" /\ yokes[x].cart = b]
    /\ UNCHANGED <<heap, bare, yokes, req, readers, codecVars>>

\* Drop of a shared wrapper unit.
DropYoke(y) ==
    /\ y \in YokeIds \ Reqs
    /\ yokes[y].state = "live"
    /\ Unborrowed(y)
    /\ yokes' = [yokes EXCEPT ![y].state = "dropped"]
    /\ heap' = [heap EXCEPT ![yokes[y].cart] = ArcDrop(@)]
    /\ UNCHANGED <<bare, req, obs, readers, codecVars>>

\* Drop of a bare handle of buffer b.
DropHandle(b) ==
    /\ Spare(b) >= 1
    /\ heap' = [heap EXCEPT ![b] = ArcDrop(@)]
    /\ bare' = [bare EXCEPT ![b] = @ - 1]
    /\ UNCHANGED <<yokes, req, obs, readers, codecVars>>

Next ==
    \/ \E r \in Reqs, ok \in BOOLEAN : Get(r, ok)
    \/ \E r \in Reqs, d \in Bodies : Chunk(r, d)
    \/ \E r \in Reqs, ok \in BOOLEAN : ToBytes(r, ok)
    \/ \E r \in Reqs : Cancel(r)
    \/ \E r \in Reqs : ArcNew(r)
    \/ \E r \in Reqs : Attach(r)
    \/ \E r \in Reqs : Respond(r)
    \/ \E b \in Reqs : CloneHandle(b)
    \/ \E b \in Reqs, s \in Sources, y \in YokeIds : AttachShared(b, s, y)
    \/ \E y \in YokeIds : Project(y)
    \/ \E y \in YokeIds : DropYoke(y)
    \/ \E b \in Reqs : DropHandle(b)

Spec == Init /\ [][Next]_vars

\* ------------------------------------------------- the handler and readers

\* Reader k takes a projection of the completed wrapper y: self.0.get()
ReaderGet(k, y) ==
    /\ readers[k].pc = "idle"
    /\ yokes[y].state = "live"
    /\ readers' = [readers EXCEPT ![k] =
                    [pc |-> "view", y |-> y,
                     seen |-> Peek(yokes[y].val, heap[yokes[y].cart].bytes,
                                   BufAddr(yokes[y].cart))]]
    /\ UNCHANGED <<heap, bare, yokes, req, obs, codecVars>>

\* Reader k encodes the Value it holds a projection of, with serializer s into
\* a sink that fails on call f.
ReaderEncode(k, s, f) ==
    /\ readers[k].pc = "view"
    /\ LET yoke == yokes[readers[k].y]
           written == ToWriter(yoke, heap[yoke.cart].bytes, s, f)
       IN  /\ readers' = [readers EXCEPT ![k] =
                            [pc |-> "done", y |-> @.y, seen |-> @.seen,
                             s |-> s, f |-> f, out |-> written.out]]
           /\ heap' = [heap EXCEPT ![yoke.cart].bytes = written.bytes]
    /\ UNCHANGED <<bare, yokes, req, obs, codecVars>>

\* Reader k lets go of its projection.
ReaderDone(k) ==
    /\ readers[k].pc \in {"view", "done"}
    /\ readers' = [readers EXCEPT ![k] = ReaderIdle]
    /\ UNCHANGED <<heap, bare, yokes, req, obs, codecVars>>

\* zero_copy as it is written (one wrapper per buffer, no other handle), and
\* readers of the wrapper it returns.
HandlerNext ==
    \/ \E r \in Reqs, ok \in BOOLEAN : Get(r, ok)
    \/ \E r \in Reqs, d \in Bodies : Chunk(r, d)
    \/ \E r \in Reqs, ok \in BOOLEAN : ToBytes(r, ok)
    \/ \E r \in Reqs : Cancel(r)
    \/ \E r \in Reqs : ArcNew(r)
    \/ \E r \in Reqs : Attach(r)
    \/ \E r \in Reqs : Respond(r)
    \/ \E k \in Readers, y \in Reqs : ReaderGet(k, y)
    \/ \E k \in Readers, s \in Serializers, f \in 0..MaxFail : ReaderEncode(k, s, f)
    \/ \E k \in Readers : ReaderDone(k)

HandlerSpec == Init /\ [][HandlerNext]_vars

\* ---------------------------------------------------- claims on the service

\* The holders of buffer b: the live wrappers over it and its bare handles.
Holders(b) == Cardinality({y \in YokeIds : yokes[y].state = "live" /\ yokes[y].cart = b}) + bare[b]

\* C1: a projection of a live wrapper never reads a freed buffer: whatever
\* wrappers and handles of the same buffer were dropped before, the buffer of
\* a live wrapper is allocated and the Value read through the wrapper is the
\* Value it was built with.
C1_NoUseAfterFree ==
    /\ obs.st = "Read" => ~obs.freed /\ obs.intact
    /\ \A y \in YokeIds :
          yokes[y].state = "live"
              => /\ heap[yokes[y].cart].state = "live"
                 /\ Peek(yokes[y].val, heap[yokes[y].cart].bytes, BufAddr(yokes[y].cart))
                        = yokes[y].snap

\* Two wrappers over one buffer, one dropped, the other read afterwards.
C1_Witness ==
    /\ obs.st = "Read"
    /\ obs.after_drop
    /\ ~obs.freed
    /\ obs.intact
    /\ \E x, y \in YokeIds :
          /\ yokes[x].state = "dropped"
          /\ yokes[y].state = "live"
          /\ yokes[y].cart = yokes[x].cart
          /\ yokes[y].val.kind = "Object"

\* C2: the count of a buffer is the number of its live holders; the buffer is
\* deallocated when, and only when, the count has reached zero, and once.
C2_CountAndSingleFree ==
    \A b \in Reqs :
        heap[b].state # "none"
            => /\ heap[b].strong = Holders(b)
               /\ heap[b].state = "freed" <=> heap[b].strong = 0
               /\ heap[b].frees = IF heap[b].state = "freed" THEN 1 ELSE 0

\* Every holder of a shared buffer gone, the last of them a wrapper.
C2_Witness ==
    \E b \in Reqs, x, y \in YokeIds :
        /\ x # y
        /\ yokes[x].state = "dropped" /\ yokes[x].cart = b
        /\ yokes[y].state = "dropped" /\ yokes[y].cart = b
        /\ heap[b].state = "freed"
        /\ heap[b].frees = 1

\* C4: a request whose body was fetched ends with a response: JSON with the
\* encoded bytes when decoding and encoding succeed, a plain-text 500 with the
\* error's description when either fails; the task never ends by a panic.
C4_ResponseForEveryOutcome ==
    \A r \in Reqs :
        /\ req[r].pc # "panicked_decode"
        /\ req[r].pc = "done"
            => \/ /\ req[r].resp.status = 200
                  /\ req[r].resp.content_type = "application/json"
               \/ /\ req[r].resp.status = 500
                  /\ req[r].resp.content_type = "text/plain; charset=utf-8"

\* ------------------------------------- claims on the handler and readers

\* The outcome of decoding the body of request r where its buffer lies.
Built(r) == FromSlice(req[r].body, BufAddr(r), "bytes")

\* What encoding wrapper r gives when nothing else runs: the Value it was
\* built with, read over the bytes that were fetched.
Alone(r, s, f) == Serialize(Built(r).val, Render(req[r].body), BufAddr(r), s, Sink(f))

\* C15: no operation mutates a constructed Value: a projection and an encode
\* (successful or failed) leave the wrappers and the buffers as they were, so
\* a live wrapper holds the Value it was built with over the bytes that were
\* fetched, and every encode of it gives what the first one gave.
C15_EncodeMutatesNothing ==
    /\ [][(readers' # readers) => (yokes' = yokes /\ heap' = heap /\ bare' = bare)]_vars
    /\ [](\A r \in Reqs :
            yokes[r].state = "live"
                => /\ yokes[r].val = Built(r).val
                   /\ heap[r].bytes = Render(req[r].body)
                   /\ yokes[r].snap = Peek(yokes[r].val, heap[r].bytes, BufAddr(r)))
    /\ [](\A k \in Readers :
            readers[k].pc = "done"
                => readers[k].out = Alone(readers[k].y, readers[k].s, readers[k].f))

\* A failed encode and a successful one of the same wrapper, the wrapper still live.
C15_Witness ==
    /\ readers[1].pc = "done" /\ readers[1].out.st = "Err"
    /\ readers[2].pc = "done" /\ readers[2].out.st = "Ok"
    /\ readers[1].y = readers[2].y
    /\ yokes[readers[1].y].state = "live"
    /\ yokes[readers[1].y].val.kind = "Object"

\* C16: a request cancelled while it awaits the fetch or the body, or whose
\* wrapper construction failed, leaves nothing behind: the count of its
\* buffer is zero, the buffer (if bytes had arrived) was freed exactly once,
\* and no wrapper or reader aliases it; a request is cancelled only at these
\* two awaits, never between the buffering and the end of the decode.
C16_CancelReleasesCleanly ==
    /\ [](\A r \in Reqs :
            req[r].pc \in {"cancelled", "panicked_decode"}
                => /\ heap[r].state # "live"
                   /\ heap[r].strong = 0
                   /\ bare[r] = 0
                   /\ heap[r].frees = IF heap[r].state = "freed" THEN 1 ELSE 0
                   /\ req[r].pc = "panicked_decode" => heap[r].state = "freed"
                   /\ \A y \in YokeIds : yokes[y].state # "live" \/ yokes[y].cart # r
                   /\ Unborrowed(r))
    /\ [][\A r \in Reqs :
            (req'[r].pc = "cancelled" /\ req[r].pc # "cancelled")
                => /\ req[r].pc \in {"start", "res", "receiving"}
                   /\ req[r].pc = "receiving" => heap'[r].state = "freed"]_vars

\* Cancelled with the body's bytes in flight.
C16_Witness ==
    \E r \in Reqs :
        /\ req[r].pc = "cancelled"
        /\ req[r].body.k = "obj"
        /\ heap[r].state = "freed"
        /\ heap[r].frees = 1
        /\ heap[r].strong = 0

\* The wrapper's construction abandoned by the panic of its decode.
C16_AbandonedWitness ==
    \E r \in Reqs :
        /\ req[r].pc = "panicked_decode"
        /\ yokes[r].state = "none"
        /\ heap[r].state = "freed"
        /\ heap[r].frees = 1

\* What reader k would read through its projection now.
Observes(k) ==
    LET y == readers[k].y
    IN  Peek(yokes[y].val, heap[yokes[y].cart].bytes, BufAddr(yokes[y].cart))

\* C17: whatever the interleaving of the readers' projections and encodes, a
\* reader's wrapper stays live, the Value it reads stays the Value it saw and
\* the Value the wrapper was built with, what it encodes is what it would
\* encode alone, and readers of one wrapper see and encode the same.
C17_ReadersAgree ==
    /\ \A k \in Readers :
            readers[k].pc # "idle"
                => /\ yokes[readers[k].y].state = "live"
                   /\ Observes(k) = readers[k].seen
                   /\ readers[k].seen
                        = Peek(Built(readers[k].y).val, Render(req[readers[k].y].body),
                               BufAddr(readers[k].y))
                   /\ readers[k].pc = "done"
                        => readers[k].out = Alone(readers[k].y, readers[k].s, readers[k].f)
    /\ \A j, k \in Readers :
            (readers[j].pc # "idle" /\ readers[k].pc # "idle" /\ readers[j].y = readers[k].y)
                => /\ readers[j].seen = readers[k].seen
                   /\ (/\ readers[j].pc = "done" /\ readers[k].pc = "done"
                       /\ readers[j].s = readers[k].s /\ readers[j].f = readers[k].f)
                        => readers[j].out = readers[k].out

\* Two readers hold a projection of one wrapper at once; one has encoded.
C17_Witness ==
    /\ readers[1].pc = "done"
    /\ readers[2].pc = "view"
    /\ readers[1].y = readers[2].y
    /\ readers[1].out.st = "Ok"
    /\ readers[1].seen.kind = "Object"
    /\ readers[2].seen = readers[1].seen

\* The steps of zero_copy and into_response, in the order of the code.
FixedOrder == <<"fetch", "buffer", "arc", "decode", "encode", "drop">>

\* How many of them a request has made when it is at pc.
StepsMade(pc) ==
    CASE pc \in {"res", "receiving", "panicked_body"} -> 1
      [] pc = "buffered" -> 2
      [] pc = "arc" -> 3
      [] pc \in {"yoked", "panicked_decode"} -> 4
      [] pc = "done" -> 6
      [] OTHER -> 0

\* The address ranges [a, a + n) and [b, b + m) share no byte.
Disjoint(a, n, b, m) == a + n <= b \/ b + m <= a

\* C19: a request makes its steps in the order fetch, buffer, reference-counted
\* handle, decode, encode, drop, each at most once; the wrapper is dropped only
\* once the response is written, the response is the encoding of the intact
\* Value, and its bytes do not overlap the input buffer.
C19_StepsInOrder ==
    \A r \in Reqs :
        /\ req[r].pc # "cancelled" => req[r].log = SubSeq(FixedOrder, 1, StepsMade(req[r].pc))
        /\ req[r].pc = "cancelled" => req[r].log \in {<<>>, <<"fetch">>}
        /\ yokes[r].state = "live" => req[r].pc = "yoked" /\ heap[r].state = "live"
        /\ yokes[r].state = "dropped" <=> req[r].pc = "done"
        /\ req[r].pc = "done"
            => /\ heap[r].state = "freed"
               /\ LET written == Alone(r, "serde_json_nostr", 0)
                  IN  req[r].resp.body = IF written.st = "Ok" THEN Render(written.out)
                                         ELSE written.msg
               /\ Disjoint(req[r].resp.at, Len(req[r].resp.body),
                           BufAddr(r), Len(heap[r].bytes))

\* A request that made all six steps and answered 200 with the body it fetched.
C19_Witness ==
    \E r \in Reqs :
        /\ req[r].pc = "done"
        /\ req[r].log = FixedOrder
        /\ req[r].resp.status = 200
        /\ Len(req[r].resp.body) = Len(Render(req[r].body))
        /\ yokes[r].state = "dropped"
        /\ heap[r].state = "freed"

\* ------------------------------------------------------ claims on key order

\* No object of the document d has two keys of the same text.
RECURSIVE NoDuplicateKeys(_)
NoDuplicateKeys(d) ==
    CASE d.k = "arr" -> \A i \in 1..Len(d.items) : NoDuplicateKeys(d.items[i])
      [] d.k = "obj" ->
            /\ \A i, h \in 1..Len(d.entries) : i # h => KeyText(d, i) # KeyText(d, h)
            /\ \A i \in 1..Len(d.entries) : NoDuplicateKeys(d.entries[i].val)
      [] OTHER -> TRUE

Orders(n) == {p \in [1..n -> 1..n] : \A i, h \in 1..n : i # h => p[i] # p[h]}

\* The sequences that take their i-th member from sets[i].
Choices(sets) ==
    {f \in [1..Len(sets) -> UNION {sets[i] : i \in 1..Len(sets)}] :
        \A i \in 1..Len(sets) : f[i] \in sets[i]}

\* The documents that differ from d only in the order of entries inside objects.
RECURSIVE Reorderings(_)
Reorderings(d) ==
    CASE d.k = "arr" ->
            {DArr(items) : items \in Choices([i \in 1..Len(d.items) |-> Reorderings(d.items[i])])}
      [] d.k = "obj" ->
            {DObj([i \in 1..Len(d.entries) |-> DEntry(d.entries[p[i]].key, vals[p[i]])]) :
                p \in Orders(Len(d.entries)),
                vals \in Choices([i \in 1..Len(d.entries) |-> Reorderings(d.entries[i].val)])}
      [] OTHER -> {d}

\* The outcome of a decode as PartialEq compares it: slices by their content.
Content(outcome, buf) ==
    IF outcome.st = "Ok" THEN Ok(Peek(outcome.val, buf, BufAddr(1))) ELSE outcome

\* C22: a document without duplicate keys that decodes, and any document that
\* differs from it only in the order of entries inside objects, decode to equal
\* Values and encode, with the same serializer into the same sink, to the same
\* outcome: identical bytes.
C22_KeyOrderInsensitive ==
    (phase # "input" /\ NoDuplicateKeys(doc) /\ dec.st = "Ok")
    => \A other \in Reorderings(doc) :
          LET decoded == FromSlice(other, BufAddr(1), src)
          IN  /\ Content(decoded, Render(other)) = Content(dec, TheBuf)
              /\ phase = "encoded"
                    => LET encoded == Serialize(decoded.val, Render(other), BufAddr(1),
                                                ser, Sink(enc.w.fail))
                       IN  /\ encoded = enc
                           /\ enc.st = "Ok" => Render(encoded.out) = Render(enc.out)

\* {"b":1,"a":"b"} and {"a":"b","b":1}: one output, keys ascending.
C22_Witness ==
    /\ phase = "encoded"
    /\ src = "str"
    /\ doc = DObj(<<DEntry(KeyB, DInt(FALSE, 1)), DEntry(KeyA, KeyB)>>)
    /\ DObj(<<DEntry(KeyA, KeyB), DEntry(KeyB, DInt(FALSE, 1))>>) \in Reorderings(doc)
    /\ enc.st = "Ok"
    /\ Render(enc.out) = Render(DObj(<<DEntry(KeyA, KeyB), DEntry(KeyB, DInt(FALSE, 1))>>))

\* An object inside an object, both in descending key order.
C22_NestedWitness ==
    /\ phase = "encoded"
    /\ doc.k = "obj"
    /\ NoDuplicateKeys(doc)
    /\ \E i \in 1..Len(doc.entries) :
          doc.entries[i].val.k = "obj" /\ Len(doc.entries[i].val.entries) >= 1
    /\ Cardinality(Reorderings(doc)) >= 2
    /\ enc.st = "Ok"
    /\ Render(enc.out) # Render(doc)

====
